---- MODULE Spec2Model ----
(***************************************************************************)
(* Access-control core of the FastAPI boilerplate backend: the token       *)
(* guard (authorize, authorize_limited), credential authentication         *)
(* (Authenticate), the admin user operations and the owner-scoped post     *)
(* lookups, over a relational store of users and posts.                    *)
(***************************************************************************)
EXTENDS Integers, Sequences, FiniteSets, TLC

VARIABLES
    users,      \* table user: id -> row
    free,       \* ids the store has not handed out yet
    posts,      \* table post: id -> row
    now,        \* the clock
    limiter,    \* rate limiter: key -> times of the calls it let through
    passes,     \* per subject id, the times of its rate-limited calls that passed
    held,       \* the token the client holds
    req,        \* the bearer token of the last request
    resp,       \* the response to the last request
    pc          \* requests in flight: handler -> position and arguments

vars == <<users, free, posts, now, limiter, passes, held, req, resp, pc>>

(***************************************************************************)
(* Bounds of the model and input domains.                                  *)
(***************************************************************************)
MaxTime == 3

\* The ids (uuids) the store can hand out; an id is never handed out twice.
UserIds == {1, 2}
FreshId(pool) == CHOOSE i \in pool : \A j \in pool : i <= j

\* Role enumeration (app.models.auth.role) and its wire values.
Role == {"ADMIN", "USER", "RESET"}
RoleValue(r) == CASE r = "ADMIN" -> "admin" [] r = "USER" -> "user" [] OTHER -> "reset"
RoleOf(v) == CHOOSE r \in Role : RoleValue(r) = v

ADMIN_EMAIL == "admin@x"
ADMIN_PASSWORD == "adminpw"
Emails == {ADMIN_EMAIL, "bob@x"}
Passwords == {ADMIN_PASSWORD, "pw"}

\* Optional values of a request payload: None, or Some(v).
None == <<>>
Some(v) == <<v>>

(***************************************************************************)
(* Token codec: Token.encode / Token.decode.                               *)
(***************************************************************************)
SECRET_KEY == "secret"
TOKEN_TTL == 2

\* str(uuid) in the token payload and its parse.
IdStr(id) == id + 100
ParseId(s) == s - 100

Sign(key, sub, scope, exp) == <<key, sub, scope, exp>>

NoToken == [sub |-> 0, scope |-> {}, exp |-> 0, sig |-> <<"", 0, {}, 0>>]

TokenEncode(id, scope, t) ==
    LET sub == IdStr(id)
        sc == {RoleValue(r) : r \in scope}
        exp == t + TOKEN_TTL
    IN [sub |-> sub, scope |-> sc, exp |-> exp, sig |-> Sign(SECRET_KEY, sub, sc, exp)]

Fail(kind) == [kind |-> kind, id |-> 0, scope |-> {}]

TokenDecode(tok, required, t) ==
    IF tok.sig # Sign(SECRET_KEY, tok.sub, tok.scope, tok.exp) THEN Fail("unauthorized")
    ELSE IF tok.exp <= t THEN Fail("unauthorized")
    ELSE LET sc == {RoleOf(v) : v \in tok.scope}
         IN IF required # {} /\ sc \cap required = {} THEN Fail("forbidden")
            ELSE [kind |-> "ok", id |-> ParseId(tok.sub), scope |-> sc]

\* A token whose payload was altered after signing.
Tamper(tok) == [tok EXCEPT !.scope = {RoleValue("ADMIN")}]

\* What the client can put in the Authorization header.
Presentable == {held, Tamper(held)}

(***************************************************************************)
(* auth/functions.py                                                       *)
(***************************************************************************)
authorize(token, security_scopes, t) ==
    TokenDecode(token, {RoleOf(i) : i \in security_scopes}, t)

\* Password hashing of the User model and User.check_password.
Hash(p) == <<"hash", p>>
check_password(user, password) == user.password = Hash(password)

\* User.find(email = ...): the ids of the rows that match.
FindByEmail(us, email) == {id \in DOMAIN us : us[id].email = email}

\* User.find(..., raise_ = False): one matching row, or 0 for None.
FindResults(us, email) ==
    IF FindByEmail(us, email) = {} THEN {0} ELSE FindByEmail(us, email)

Result(kind, id) == [kind |-> kind, id |-> id]

\* Authenticate.__call__ reporting a missing user as not_found.
AuthenticateMissNotFound(us, found, password) ==
    IF found = 0 THEN Result("not_found", 0)
    ELSE IF ~check_password(us[found], password) THEN Result("unauthorized", 0)
    ELSE IF us[found].verified = FALSE THEN Result("forbidden", 0)
    ELSE Result("ok", found)

\* Authenticate.__call__ testing the verified flag before the password.
AuthenticateVerifiedFirst(us, found, password) ==
    IF found = 0 THEN Result("unauthorized", 0)
    ELSE IF us[found].verified = FALSE THEN Result("forbidden", 0)
    ELSE IF ~check_password(us[found], password) THEN Result("unauthorized", 0)
    ELSE Result("ok", found)

\* Authenticate.__call__, given the row User.find returned.
Authenticate(us, found, password) ==
    IF found = 0 \/ ~check_password(us[found], password) THEN Result("unauthorized", 0)
    ELSE IF us[found].verified = FALSE THEN Result("forbidden", 0)
    ELSE Result("ok", found)

\* to_token encoding the id without the user's scope.
ToTokenNoScope(us, found, password, t) ==
    LET r == Authenticate(us, found, password)
    IN IF r.kind # "ok" THEN [kind |-> r.kind, tok |-> NoToken]
       ELSE [kind |-> "ok", tok |-> TokenEncode(r.id, {}, t)]

\* Authenticate.to_token: authenticate, then encode the user's id and scope.
ToToken(us, found, password, t) ==
    LET r == Authenticate(us, found, password)
    IN IF r.kind # "ok" THEN [kind |-> r.kind, tok |-> NoToken]
       ELSE [kind |-> "ok", tok |-> TokenEncode(r.id, us[r.id].scope, t)]

\* Authenticate.from_token: User.get by the id of the decoded token.
FromToken(us, token) ==
    IF token.id \in DOMAIN us THEN Result("ok", token.id) ELSE Result("not_found", 0)

(***************************************************************************)
(* user/functions.py and the store operations it calls.                    *)
(***************************************************************************)
UserFields == {"name", "email", "password", "verified", "scope"}

\* A column's stored value for a constructor or update argument.
Stored(f, v) == IF f = "password" THEN Hash(v) ELSE v

\* User(**kwargs): the row a constructor call builds.
NewUser(name, email, password, verified, scope) ==
    [name |-> name, email |-> email, password |-> Stored("password", password),
     verified |-> verified, scope |-> scope]

\* UserIn and its model_dump(); new accounts start unverified with the USER role.
UserIns == [name : {"bob"}, email : Emails, password : {"pw"}]
UserFromIn(user_in) ==
    NewUser(user_in.name, user_in.email, user_in.password, FALSE, {"USER"})

\* UserUpdate: every field optional.  The payloads tried set no field, one
\* field, or the email together with verified = True.
UserUpdates ==
    LET all == [name : {None, Some("bob")}, email : {None} \cup {Some(e) : e \in Emails},
                password : {None, Some("pw")}, verified : {None, Some(TRUE), Some(FALSE)},
                scope : {None, Some({"ADMIN"}), Some({"RESET"})}]
    IN {u \in all : \/ Cardinality({f \in DOMAIN u : u[f] # None}) <= 1
                     \/ /\ u.name = None /\ u.password = None /\ u.scope = None
                        /\ u.verified = Some(TRUE)}

\* The schema's value for a field the payload leaves out.
Default(f) == CASE f = "verified" -> FALSE [] f = "scope" -> {} [] OTHER -> ""

\* UserUpdate.model_dump() keeping the fields the payload leaves out.
model_dump_all(user_update) ==
    [f \in UserFields |->
        IF user_update[f] # None THEN user_update[f][1] ELSE Default(f)]

\* UserUpdate.model_dump(exclude_none = True)
model_dump(user_update) ==
    [f \in {g \in UserFields : user_update[g] # None} |-> user_update[f][1]]

\* user.save: insert the row under a fresh id.
Save(us, id, row) == us @@ (id :> row)

\* user.update(**fields): set the given columns of row id.
Update(us, id, fields) ==
    [us EXCEPT ![id] = [f \in UserFields |->
        IF f \in DOMAIN fields THEN Stored(f, fields[f]) ELSE us[id][f]]]

\* user.delete
Delete(us, id) == [i \in DOMAIN us \ {id} |-> us[i]]

Resp(op, kind) == [op |-> op, kind |-> kind]

\* The response of a route with the path parameter id.
RespId(op, kind, id) == [op |-> op, kind |-> kind, id |-> id]

\* create_admin_user saving an admin without looking for one.
create_admin_user_always ==
    /\ free # {}
    /\ users' = Save(users, FreshId(free),
           NewUser("admin", ADMIN_EMAIL, ADMIN_PASSWORD, TRUE, {"ADMIN"}))
    /\ free' = free \ {FreshId(free)}
    /\ resp' = Resp("create_admin_user", "ok")
    /\ req' = NoToken
    /\ UNCHANGED <<posts, now, limiter, passes, held, pc>>

\* create_admin_user: find the admin by email, create it when absent.
create_admin_user ==
    /\ \E admin \in FindResults(users, ADMIN_EMAIL) :
         IF admin = 0
         THEN /\ free # {}
              /\ users' = Save(users, FreshId(free),
                     NewUser("admin", ADMIN_EMAIL, ADMIN_PASSWORD, TRUE, {"ADMIN"}))
              /\ free' = free \ {FreshId(free)}
              /\ resp' = Resp("create_admin_user", "ok")
         ELSE /\ UNCHANGED <<users, free>>
              /\ resp' = Resp("create_admin_user", "ok")
    /\ req' = NoToken
    /\ UNCHANGED <<posts, now, limiter, passes, held, pc>>

\* create_user: conflict when the email is stored, otherwise save.  The reset
\* mail it requests afterwards is handed to the mail collaborator.
create_user(user_in) ==
    \E found \in FindResults(users, user_in.email) :
        IF found # 0
        THEN /\ UNCHANGED <<users, free>>
             /\ resp' = Resp("create_user", "conflict")
        ELSE /\ free # {}
             /\ users' = Save(users, FreshId(free), UserFromIn(user_in))
             /\ free' = free \ {FreshId(free)}
             /\ resp' = Resp("create_user", "ok")

\* get_users: User.all
get_users ==
    /\ UNCHANGED <<users, free>>
    /\ resp' = Resp("get_users", "ok")

\* get_user: User.get(id), not_found when the row is missing.
get_user(id) ==
    /\ UNCHANGED <<users, free>>
    /\ resp' = IF id \in DOMAIN users THEN RespId("get_user", "ok", id)
               ELSE RespId("get_user", "not_found", id)

\* delete_user: get_user, then user.delete.
delete_user(id) ==
    IF id \in DOMAIN users
    THEN /\ users' = Delete(users, id)
         /\ free' = free
         /\ resp' = RespId("delete_user", "ok", id)
    ELSE /\ UNCHANGED <<users, free>>
         /\ resp' = RespId("delete_user", "not_found", id)

\* update_user: get_user, then user.update with the dumped payload.
update_user(id, user_update) ==
    IF id \in DOMAIN users
    THEN /\ users' = Update(users, id, model_dump(user_update))
         /\ free' = free
         /\ resp' = RespId("update_user", "ok", id)
    ELSE /\ UNCHANGED <<users, free>>
         /\ resp' = RespId("update_user", "not_found", id)

(***************************************************************************)
(* api/v1/admin.py: every route of the router runs authorize with the      *)
(* router's security scopes before its own dependencies.                   *)
(***************************************************************************)
\* The admin router declaring no scopes.
AdminNoScopes == {}

\* Security(authorize, scopes = [Role.ADMIN])
AdminSecurityScopes == {RoleValue("ADMIN")}

Rejected(op, kind) ==
    /\ resp' = Resp(op, kind)
    /\ UNCHANGED <<users, free>>

RejectedId(op, kind, id) ==
    /\ resp' = RespId(op, kind, id)
    /\ UNCHANGED <<users, free>>

admin_create_user(tok, user_in) ==
    /\ tok \in Presentable
    /\ req' = tok
    /\ LET a == authorize(tok, AdminSecurityScopes, now)
       IN IF a.kind # "ok" THEN Rejected("create_user", a.kind) ELSE create_user(user_in)
    /\ UNCHANGED <<posts, now, limiter, passes, held, pc>>

admin_get_users(tok) ==
    /\ tok \in Presentable
    /\ req' = tok
    /\ LET a == authorize(tok, AdminSecurityScopes, now)
       IN IF a.kind # "ok" THEN Rejected("get_users", a.kind) ELSE get_users
    /\ UNCHANGED <<posts, now, limiter, passes, held, pc>>

admin_get_user(tok, id) ==
    /\ tok \in Presentable
    /\ req' = tok
    /\ LET a == authorize(tok, AdminSecurityScopes, now)
       IN IF a.kind # "ok" THEN RejectedId("get_user", a.kind, id) ELSE get_user(id)
    /\ UNCHANGED <<posts, now, limiter, passes, held, pc>>

admin_delete_user(tok, id) ==
    /\ tok \in Presentable
    /\ req' = tok
    /\ LET a == authorize(tok, AdminSecurityScopes, now)
       IN IF a.kind # "ok" THEN RejectedId("delete_user", a.kind, id) ELSE delete_user(id)
    /\ UNCHANGED <<posts, now, limiter, passes, held, pc>>

admin_update_user(tok, id, user_update) ==
    /\ tok \in Presentable
    /\ req' = tok
    /\ LET a == authorize(tok, AdminSecurityScopes, now)
       IN IF a.kind # "ok" THEN RejectedId("update_user", a.kind, id)
          ELSE update_user(id, user_update)
    /\ UNCHANGED <<posts, now, limiter, passes, held, pc>>

(***************************************************************************)
(* auth/dependencies.py: the authentication endpoints' dependencies.       *)
(***************************************************************************)
\* authenticateDep: Authenticate() called with the form's credentials.
authenticate(username, password) ==
    /\ \E found \in FindResults(users, username) :
         LET r == Authenticate(users, found, password)
         IN resp' = [op |-> "authenticate", kind |-> r.kind, username |-> username]
    /\ req' = NoToken
    /\ UNCHANGED <<users, free, posts, now, limiter, passes, held, pc>>

\* authenticateTokenDep: Authenticate.to_token; the client keeps the token.
to_token(username, password) ==
    /\ \E found \in FindResults(users, username) :
         LET r == ToToken(users, found, password, now)
         IN /\ resp' = [op |-> "to_token", kind |-> r.kind, username |-> username]
            /\ held' = IF r.kind = "ok" THEN r.tok ELSE held
    /\ req' = NoToken
    /\ UNCHANGED <<users, free, posts, now, limiter, passes, pc>>

\* authorizeLoadDep (no scopes) and resetLoadDep (scopes = [RESET]): from_token.
LoadScopes == {{}, {RoleValue("RESET")}}

from_token(tok, security_scopes) ==
    /\ tok \in Presentable
    /\ req' = tok
    /\ LET a == authorize(tok, security_scopes, now)
       IN IF a.kind # "ok" THEN resp' = Resp("from_token", a.kind)
          ELSE LET r == FromToken(users, a)
               IN resp' = Resp("from_token", r.kind)
    /\ UNCHANGED <<users, free, posts, now, limiter, passes, held, pc>>

\* The clock.
Tick ==
    /\ now < MaxTime
    /\ now' = now + 1
    /\ UNCHANGED <<users, free, posts, limiter, passes, held, req, resp, pc>>

(***************************************************************************)
(* Rate limiter (app.functions.limiter.rate_limiter): at most RATE_LIMIT   *)
(* calls per key within a window of RATE_WINDOW ticks, checked and         *)
(* recorded in one atomic step.                                            *)
(***************************************************************************)
RATE_LIMIT == 2
RATE_WINDOW == 2

Get(f, k) == IF k \in DOMAIN f THEN f[k] ELSE <<>>
Put(f, k, v) == (k :> v) @@ f

\* The times of a log that lie in the window ending at t.
InWindow(log, t) == SelectSeq(log, LAMBDA s : t - s < RATE_WINDOW)

rate_limiter(lim, key, t) ==
    LET calls == InWindow(Get(lim, key), t)
    IN IF Len(calls) >= RATE_LIMIT
       THEN [kind |-> "rate_limited", lim |-> Put(lim, key, calls)]
       ELSE [kind |-> "ok", lim |-> Put(lim, key, Append(calls, t))]

\* token.id.hex
Hex(id) == id + 200

\* One limiter key for every subject.
LimiterKeyShared(token) == Hex(0)

\* The key authorize_limited hands to the limiter: token.id.hex
LimiterKey(token) == Hex(token.id)

\* authorize_limited consulting the limiter before the token is decoded.
authorize_limited_first(tok, security_scopes, lim, t) ==
    LET r == rate_limiter(lim, Hex(ParseId(tok.sub)), t)
        a == authorize(tok, security_scopes, t)
    IN IF r.kind # "ok"
       THEN [kind |-> r.kind, token |-> a, lim |-> r.lim, steps |-> <<"limit">>]
       ELSE [kind |-> a.kind, token |-> a, lim |-> r.lim, steps |-> <<"limit", "decode">>]

\* authorize_limited: runs after its dependency authorize succeeded, consults
\* the limiter under the decoded subject's key and hands the token on.
authorize_limited(tok, security_scopes, lim, t) ==
    LET a == authorize(tok, security_scopes, t)
    IN IF a.kind # "ok"
       THEN [kind |-> a.kind, token |-> a, lim |-> lim, steps |-> <<"decode">>]
       ELSE LET r == rate_limiter(lim, LimiterKey(a), t)
            IN [kind |-> r.kind, token |-> a, lim |-> r.lim,
                steps |-> <<"decode", "limit">>]

(***************************************************************************)
(* post/functions.py                                                       *)
(***************************************************************************)
PostIds == {1, 2, 3}

PostRow(ps, p) == [id |-> p, user_id |-> ps[p].user_id]

\* Post.find(**filter, raise_ = True): the rows that match every filter.
PostFind(ps, filter) ==
    {p \in DOMAIN ps : \A k \in DOMAIN filter : PostRow(ps, p)[k] = filter[k]}

PostResult(found) ==
    IF found = {} THEN [kind |-> "not_found", post |-> 0]
    ELSE [kind |-> "ok", post |-> CHOOSE p \in found : TRUE]

\* load_post looking the post up by its id alone.
load_post_by_id(ps, post_id, token) ==
    PostResult(PostFind(ps, [id |-> post_id]))

\* load_post: Post.find(id = post_id, user_id = token.id, raise_ = True)
load_post(ps, post_id, token) ==
    PostResult(PostFind(ps, [id |-> post_id, user_id |-> token.id]))

\* load_post_limited: the same lookup
load_post_limited(ps, post_id, token) ==
    PostResult(PostFind(ps, [id |-> post_id, user_id |-> token.id]))

\* The route dependencies authorizeDep and authorizeLimitDep declare no scopes.
NoScopes == {}

\* A request whose post is resolved by load_post.
LoadPost(ps, tok, post_id, t) ==
    LET a == authorize(tok, NoScopes, t)
    IN IF a.kind # "ok" THEN [kind |-> a.kind, post |-> 0, id |-> a.id]
       ELSE LET r == load_post(ps, post_id, a)
            IN [kind |-> r.kind, post |-> r.post, id |-> a.id]

\* A request whose post is resolved by load_post_limited.
LoadPostLimited(ps, tok, post_id, lim, t) ==
    LET g == authorize_limited(tok, NoScopes, lim, t)
    IN IF g.kind # "ok"
       THEN [kind |-> g.kind, post |-> 0, lim |-> g.lim, steps |-> g.steps,
             id |-> g.token.id]
       ELSE LET r == load_post_limited(ps, post_id, g.token)
            IN [kind |-> r.kind, post |-> r.post, lim |-> g.lim,
                steps |-> Append(g.steps, "find"), id |-> g.token.id]

get_post(tok, post_id) ==
    /\ tok \in Presentable
    /\ req' = tok
    /\ LET r == LoadPost(posts, tok, post_id, now)
       IN resp' = [op |-> "load_post", kind |-> r.kind, post_id |-> post_id,
                   id |-> r.id, post |-> r.post]
    /\ UNCHANGED <<users, free, posts, now, limiter, passes, held, pc>>

get_post_limited(tok, post_id) ==
    /\ tok \in Presentable
    /\ req' = tok
    /\ LET r == LoadPostLimited(posts, tok, post_id, limiter, now)
       IN /\ resp' = [op |-> "load_post_limited", kind |-> r.kind, post_id |-> post_id,
                       id |-> r.id, post |-> r.post, steps |-> r.steps]
          /\ limiter' = r.lim
          /\ passes' = IF Len(r.steps) = 3
                       THEN Put(passes, r.id, Append(InWindow(Get(passes, r.id), now), now))
                       ELSE passes
    /\ UNCHANGED <<users, free, posts, now, held, pc>>

(***************************************************************************)
(* Sequential requests against the user store: each handler runs to        *)
(* completion, starting from an empty store.                               *)
(***************************************************************************)
EmptyStore == [i \in {} |-> 0]

Init ==
    /\ users = EmptyStore
    /\ free = UserIds
    /\ posts = EmptyStore
    /\ now = 0
    /\ limiter = EmptyStore
    /\ passes = EmptyStore
    /\ held = NoToken
    /\ req = NoToken
    /\ resp = Resp("none", "ok")
    /\ pc = EmptyStore

Next ==
    \/ create_admin_user
    \/ \E e \in Emails, p \in Passwords : authenticate(e, p)
    \/ \E e \in Emails, p \in Passwords : to_token(e, p)
    \/ \E tok \in Presentable, s \in LoadScopes : from_token(tok, s)
    \/ \E tok \in Presentable, ui \in UserIns : admin_create_user(tok, ui)
    \/ \E tok \in Presentable : admin_get_users(tok)
    \/ \E tok \in Presentable, id \in UserIds : admin_get_user(tok, id)
    \/ \E tok \in Presentable, id \in UserIds : admin_delete_user(tok, id)
    \/ \E tok \in Presentable, id \in UserIds, u \in UserUpdates :
           admin_update_user(tok, id, u)

Spec == Init /\ [][Next]_vars

(***************************************************************************)
(* Token-guarded post lookups over time: two verified subjects, each       *)
(* owning one post, log in and load posts while the clock advances.        *)
(***************************************************************************)
ScopeSets == {{}, {"USER"}, {"ADMIN", "USER"}, {"USER", "RESET"}}

InitPosts ==
    /\ \E sc \in ScopeSets :
         users = (1 :> NewUser("admin", ADMIN_EMAIL, ADMIN_PASSWORD, TRUE, {"ADMIN"}))
                 @@ (2 :> NewUser("bob", "bob@x", "pw", TRUE, sc))
    /\ free = {}
    /\ posts = (1 :> [user_id |-> 1]) @@ (2 :> [user_id |-> 2])
    /\ now = 0
    /\ limiter = EmptyStore
    /\ passes = EmptyStore
    /\ held = NoToken
    /\ req = NoToken
    /\ resp = Resp("none", "ok")
    /\ pc = EmptyStore

NextPosts ==
    \/ \E e \in Emails, p \in Passwords : to_token(e, p)
    \/ \E tok \in Presentable, pid \in PostIds : get_post(tok, pid)
    \/ \E tok \in Presentable, pid \in PostIds : get_post_limited(tok, pid)
    \/ Tick

SpecPosts == InitPosts /\ [][NextPosts]_vars

(***************************************************************************)
(* Concurrent requests against the user store.  A handler suspends at each *)
(* await on the store, so between its User.find / User.get and its save,   *)
(* update or delete the other handlers may run.  The requests carry the    *)
(* admin's token; the bootstrap runs in a worker that is starting.         *)
(***************************************************************************)
Handlers == {"h1", "h2"}
ConcIds == {1, 2, 3}
Idle == [at |-> "idle"]

\* UserUpdate payloads that set the email alone.
EmailUpdates == {u \in UserUpdates : \A f \in UserFields : (u[f] # None) = (f = "email")}

PassesAdminGuard ==
    /\ authorize(held, AdminSecurityScopes, now).kind = "ok"
    /\ req' = held

\* create_user up to its await on User.find
create_user_find(h, user_in) ==
    /\ pc[h] = Idle
    /\ PassesAdminGuard
    /\ \E found \in FindResults(users, user_in.email) :
         IF found # 0
         THEN /\ resp' = Resp("create_user", "conflict")
              /\ pc' = pc
         ELSE /\ resp' = resp
              /\ pc' = [pc EXCEPT ![h] = [at |-> "create_user", user_in |-> user_in]]
    /\ UNCHANGED <<users, free, posts, now, limiter, passes, held>>

\* create_user from its save on
create_user_save(h) ==
    /\ pc[h].at = "create_user"
    /\ free # {}
    /\ users' = Save(users, FreshId(free), UserFromIn(pc[h].user_in))
    /\ free' = free \ {FreshId(free)}
    /\ resp' = Resp("create_user", "ok")
    /\ pc' = [pc EXCEPT ![h] = Idle]
    /\ UNCHANGED <<posts, now, limiter, passes, held, req>>

\* create_admin_user up to its await on User.find
create_admin_user_find(h) ==
    /\ pc[h] = Idle
    /\ \E admin \in FindResults(users, ADMIN_EMAIL) :
         IF admin # 0
         THEN /\ resp' = Resp("create_admin_user", "ok")
              /\ pc' = pc
         ELSE /\ resp' = resp
              /\ pc' = [pc EXCEPT ![h] = [at |-> "create_admin_user"]]
    /\ UNCHANGED <<users, free, posts, now, limiter, passes, held, req>>

\* create_admin_user from its save on
create_admin_user_save(h) ==
    /\ pc[h].at = "create_admin_user"
    /\ free # {}
    /\ users' = Save(users, FreshId(free),
           NewUser("admin", ADMIN_EMAIL, ADMIN_PASSWORD, TRUE, {"ADMIN"}))
    /\ free' = free \ {FreshId(free)}
    /\ resp' = Resp("create_admin_user", "ok")
    /\ pc' = [pc EXCEPT ![h] = Idle]
    /\ UNCHANGED <<posts, now, limiter, passes, held, req>>

\* userGetDep of update_user: get_user, awaited before the handler body
update_user_get(h, id, user_update) ==
    /\ pc[h] = Idle
    /\ PassesAdminGuard
    /\ IF id \in DOMAIN users
       THEN /\ resp' = resp
            /\ pc' = [pc EXCEPT ![h] =
                         [at |-> "update_user", id |-> id, user_update |-> user_update]]
       ELSE /\ resp' = Resp("update_user", "not_found")
            /\ pc' = pc
    /\ UNCHANGED <<users, free, posts, now, limiter, passes, held>>

\* update_user's body: user.update on the row it was given
update_user_apply(h) ==
    /\ pc[h].at = "update_user"
    /\ IF pc[h].id \in DOMAIN users
       THEN /\ users' = Update(users, pc[h].id, model_dump(pc[h].user_update))
            /\ resp' = Resp("update_user", "ok")
       ELSE /\ users' = users
            /\ resp' = Resp("update_user", "not_found")
    /\ pc' = [pc EXCEPT ![h] = Idle]
    /\ UNCHANGED <<free, posts, now, limiter, passes, held, req>>

\* userGetDep of delete_user
delete_user_get(h, id) ==
    /\ pc[h] = Idle
    /\ PassesAdminGuard
    /\ IF id \in DOMAIN users
       THEN /\ resp' = resp
            /\ pc' = [pc EXCEPT ![h] = [at |-> "delete_user", id |-> id]]
       ELSE /\ resp' = Resp("delete_user", "not_found")
            /\ pc' = pc
    /\ UNCHANGED <<users, free, posts, now, limiter, passes, held>>

\* delete_user's body: user.delete on the row it was given
delete_user_apply(h) ==
    /\ pc[h].at = "delete_user"
    /\ IF pc[h].id \in DOMAIN users
       THEN /\ users' = Delete(users, pc[h].id)
            /\ resp' = Resp("delete_user", "ok")
       ELSE /\ users' = users
            /\ resp' = Resp("delete_user", "not_found")
    /\ pc' = [pc EXCEPT ![h] = Idle]
    /\ UNCHANGED <<free, posts, now, limiter, passes, held, req>>

\* After the bootstrap and the admin's login.
InitConc ==
    /\ users = (1 :> NewUser("admin", ADMIN_EMAIL, ADMIN_PASSWORD, TRUE, {"ADMIN"}))
    /\ free = ConcIds \ {1}
    /\ posts = EmptyStore
    /\ now = 0
    /\ limiter = EmptyStore
    /\ passes = EmptyStore
    /\ held = TokenEncode(1, {"ADMIN"}, 0)
    /\ req = NoToken
    /\ resp = [op |-> "to_token", kind |-> "ok", username |-> ADMIN_EMAIL]
    /\ pc = [h \in Handlers |-> Idle]

NextConc ==
    \/ \E h \in Handlers, ui \in UserIns : create_user_find(h, ui)
    \/ \E h \in Handlers : create_user_save(h)
    \/ \E h \in Handlers : create_admin_user_find(h)
    \/ \E h \in Handlers : create_admin_user_save(h)
    \/ \E h \in Handlers, id \in ConcIds, u \in EmailUpdates : update_user_get(h, id, u)
    \/ \E h \in Handlers : update_user_apply(h)
    \/ \E h \in Handlers, id \in ConcIds : delete_user_get(h, id)
    \/ \E h \in Handlers : delete_user_apply(h)

SpecConc == InitConc /\ [][NextConc]_vars

(***************************************************************************)
(* Properties of the post lookups, the rate limiter and the token codec,   *)
(* checked under SpecPosts.                                                *)
(***************************************************************************)
\* The subject and scope a token carries, when its signature and expiry verify.
Decoded(tok) == TokenDecode(tok, {}, now)
Valid(tok) == Decoded(tok).kind = "ok"

\* The posts a valid token of another subject asks for.
Foreign(tok, pid) ==
    /\ Valid(tok)
    /\ pid \in DOMAIN posts
    /\ posts[pid].user_id # Decoded(tok).id

Absent == CHOOSE pid \in PostIds : pid \notin DOMAIN posts

\* C1 as stated: with a valid token of subject A and the id of a post owned by
\* another subject B, load_post and load_post_limited never return the post and
\* both fail with not_found.
C1_ForeignPostNotFound ==
    \A tok \in Presentable, pid \in PostIds :
        Foreign(tok, pid) =>
            /\ LoadPost(posts, tok, pid, now).kind = "not_found"
            /\ LoadPost(posts, tok, pid, now).post # pid
            /\ LoadPostLimited(posts, tok, pid, limiter, now).kind = "not_found"
            /\ LoadPostLimited(posts, tok, pid, limiter, now).post # pid

\* C1 amended: with a valid token of subject A and the id of a post owned by
\* another subject B, neither function returns the post; load_post fails with
\* not_found; load_post_limited fails with not_found, or with rate_limited when
\* A's quota is used up; and either outcome is the one the same request gets for
\* a post id that does not exist.
C1_ForeignPostHidden ==
    \A tok \in Presentable, pid \in PostIds :
        Foreign(tok, pid) =>
            LET r == LoadPost(posts, tok, pid, now)
                l == LoadPostLimited(posts, tok, pid, limiter, now)
                ra == LoadPost(posts, tok, Absent, now)
                la == LoadPostLimited(posts, tok, Absent, limiter, now)
            IN /\ r.kind = "not_found" /\ r.post = 0
               /\ l.kind \in {"not_found", "rate_limited"} /\ l.post = 0
               /\ (l.kind = "rate_limited") = (Len(l.steps) = 2)
               /\ r.kind = ra.kind /\ r.post = ra.post
               /\ l.kind = la.kind /\ l.post = la.post

\* A limited lookup of another subject's post was answered not_found.
C1_Witness ==
    /\ resp.op = "load_post_limited"
    /\ resp.kind = "not_found"
    /\ resp.post_id \in DOMAIN posts
    /\ resp.id \in DOMAIN users
    /\ posts[resp.post_id].user_id # resp.id

\* The step is a request guarded by authorize_limited; its token is req'.
LimitedStep == resp'.op = "load_post_limited" /\ now' = now

\* The subject's own passed calls in the window ending now.
OwnPasses(id) == Len(InWindow(Get(passes, id), now))

\* C7: per subject, at most RATE_LIMIT rate-limited calls pass within one window
\* of RATE_WINDOW; a call made when the subject already has RATE_LIMIT passed
\* calls in the window fails with rate_limited; a call made when fewer of its own
\* calls lie in the window (in particular once the window has elapsed) passes;
\* and a call changes no other subject's count.
C7_RateLimit ==
    /\ [](\A id \in DOMAIN passes : OwnPasses(id) <= RATE_LIMIT)
    /\ [][(LimitedStep /\ Valid(req')) =>
                LET id == Decoded(req').id
                IN /\ (OwnPasses(id) >= RATE_LIMIT) = (resp'.kind = "rate_limited")
                   /\ (OwnPasses(id) < RATE_LIMIT) =>
                          Get(passes', id) = Append(InWindow(Get(passes, id), now), now)
                   /\ (\A i \in 1..Len(Get(passes, id)) :
                           now - Get(passes, id)[i] >= RATE_WINDOW) =>
                          resp'.kind # "rate_limited"
                   /\ \A other \in DOMAIN passes \ {id} : passes'[other] = passes[other]
         ]_vars

\* One subject was refused as rate_limited while the other subject's call in the
\* same window had passed.
C7_Witness ==
    /\ resp.op = "load_post_limited"
    /\ resp.kind = "rate_limited"
    /\ OwnPasses(resp.id) = RATE_LIMIT
    /\ \E other \in DOMAIN passes \ {resp.id} : OwnPasses(other) > 0

\* C8: decoding the token encode produced for a subject id and scope set, with
\* that scope set required and before expiry, succeeds with the same id and scope
\* set; and the token to_token issues for a user decodes through authorize to the
\* user's id and scope of the moment of issuance, at every time before expiry.
C8_RoundTrip ==
    /\ \A id \in UserIds, sc \in SUBSET Role, t \in now..MaxTime :
           t < now + TOKEN_TTL =>
               TokenDecode(TokenEncode(id, sc, now), sc, t)
                   = [kind |-> "ok", id |-> id, scope |-> sc]
    /\ \A e \in Emails, p \in Passwords :
           \A found \in FindResults(users, e) :
               LET r == ToToken(users, found, p, now)
               IN r.kind = "ok" =>
                      \A t \in now..MaxTime :
                          t < now + TOKEN_TTL =>
                              authorize(r.tok, {RoleValue(x) : x \in users[found].scope}, t)
                                  = [kind |-> "ok", id |-> found,
                                     scope |-> users[found].scope]

\* A token was issued, time has passed, and it still decodes to its user.
C8_Witness ==
    /\ resp.op = "to_token"
    /\ resp.kind = "ok"
    /\ now > 0
    /\ \E id \in DOMAIN users :
           /\ users[id].email = resp.username
           /\ users[id].scope # {}
           /\ authorize(held, {RoleValue(x) : x \in users[id].scope}, now)
                  = [kind |-> "ok", id |-> id, scope |-> users[id].scope]

\* C9: in a request guarded by authorize_limited the token is decoded first; a
\* rejected token leaves every limiter counter untouched; after a successful
\* decode the limiter is consulted under the decoded subject's key only; and the
\* lookup runs only when the limiter passed, so a rate_limited request makes none.
C9_GuardOrder ==
    [][LimitedStep =>
          LET a == authorize(req', NoScopes, now)
          IN IF a.kind # "ok"
                 THEN /\ limiter' = limiter
                      /\ resp'.kind = a.kind
                      /\ resp'.steps = <<"decode">>
                 ELSE /\ \A k \in DOMAIN limiter \ {Hex(a.id)} :
                             k \in DOMAIN limiter' /\ limiter'[k] = limiter[k]
                      /\ DOMAIN limiter' = DOMAIN limiter \cup {Hex(a.id)}
                      /\ resp'.id = a.id
                      /\ IF resp'.kind = "rate_limited"
                         THEN resp'.steps = <<"decode", "limit">>
                         ELSE /\ resp'.steps = <<"decode", "limit", "find">>
                              /\ Len(limiter'[Hex(a.id)]) <= RATE_LIMIT
                              /\ limiter'[Hex(a.id)][Len(limiter'[Hex(a.id)])] = now
      ]_vars

\* A request with an expired token was rejected while a limiter counter was
\* full.
C9_Witness ==
    /\ resp.op = "load_post_limited"
    /\ resp.kind = "unauthorized"
    /\ req # NoToken
    /\ req = held
    /\ req.exp <= now
    /\ \E k \in DOMAIN limiter : Len(limiter[k]) = RATE_LIMIT

(***************************************************************************)
(* Properties of authentication and of the admin user operations, checked  *)
(* under Spec.                                                             *)
(***************************************************************************)
Matches(id, password) == users[id].password = Hash(password)

\* C2: credential authentication returns the user when the email is stored, the
\* password matches and the user is verified; fails with unauthorized on a wrong
\* password; fails for an email that is not stored with the very result a wrong
\* password gets (unauthorized, never not_found); and fails with forbidden when
\* the password matches but the user is not verified.
C2_AuthenticateOutcomes ==
    \A e \in Emails, p \in Passwords :
        \A found \in FindResults(users, e) :
            LET r == Authenticate(users, found, p)
            IN /\ r.kind \in {"ok", "unauthorized", "forbidden"}
               /\ FindByEmail(users, e) = {} =>
                      /\ found = 0
                      /\ r = [kind |-> "unauthorized", id |-> 0]
               /\ FindByEmail(users, e) # {} =>
                      /\ users[found].email = e
                      /\ (Matches(found, p) /\ users[found].verified) =>
                             r = [kind |-> "ok", id |-> found]
                      /\ ~Matches(found, p) => r = [kind |-> "unauthorized", id |-> 0]
                      /\ (Matches(found, p) /\ ~users[found].verified) =>
                             r.kind = "forbidden"

\* An unverified user presented the right password and was refused as forbidden.
C2_Witness ==
    /\ resp.op = "authenticate"
    /\ resp.kind = "forbidden"
    /\ \E id \in DOMAIN users : users[id].email = resp.username /\ ~users[id].verified

Refusals == {"unauthorized", "forbidden"}
AdminOps == {"create_user", "get_users", "get_user", "delete_user", "update_user"}

\* The step is a request to one of the admin router's routes; its token is req'.
AdminStep == resp'.op \in AdminOps /\ now' = now

\* What authorize must make of a token whose signature and expiry verify, for an
\* operation that requires the scopes required.
GuardedBy(tok, required) ==
    /\ (Valid(tok) /\ Decoded(tok).scope \cap required = {}) => resp'.kind = "forbidden"
    /\ (Valid(tok) /\ Decoded(tok).scope \cap required # {}) => resp'.kind \notin Refusals
    /\ resp'.kind \notin Refusals =>
           (Valid(tok) /\ Decoded(tok).scope \cap required # {})
    /\ resp'.kind \in Refusals => UNCHANGED <<users, free, posts, held>>

\* C3: an operation guarded by authorize with required scopes runs only when the
\* scope set of the (verified) token meets them: a token with disjoint scopes is
\* refused as forbidden and the operation has no effect, a token with a scope in
\* common passes the guard.  So the admin user operations, which require ADMIN,
\* take effect only for a token with the ADMIN scope, and the reset load, which
\* requires RESET, only for a token with the RESET scope.
C3_ScopeGuard ==
    [][/\ AdminStep => GuardedBy(req', {"ADMIN"})
       /\ from_token(req', {RoleValue("RESET")}) => GuardedBy(req', {"RESET"})
      ]_vars

\* A verified token without the ADMIN scope asked for an admin operation.
C3_Witness ==
    /\ resp.op \in AdminOps
    /\ resp.kind = "forbidden"
    /\ Valid(req)
    /\ "ADMIN" \notin Decoded(req).scope
    /\ Cardinality(DOMAIN users) = 2

AdminRows(us) == FindByEmail(us, ADMIN_EMAIL)

\* C4: a run of create_admin_user that finds no subject with the admin email
\* adds exactly one subject, with that email, the configured password, verified
\* and with scope [ADMIN], and changes no other subject; a run that finds one
\* changes nothing, so further runs add no second admin.
C4_AdminBootstrap ==
    [][create_admin_user =>
          IF AdminRows(users) = {}
          THEN \E id \in UserIds \ DOMAIN users :
                  /\ DOMAIN users' = DOMAIN users \cup {id}
                  /\ AdminRows(users') = {id}
                  /\ users'[id].password = Hash(ADMIN_PASSWORD)
                  /\ users'[id].verified = TRUE
                  /\ users'[id].scope = {"ADMIN"}
                  /\ \A i \in DOMAIN users : users'[i] = users[i]
          ELSE /\ users' = users
               /\ Cardinality(AdminRows(users')) = Cardinality(AdminRows(users))
      ]_vars

\* A further run: the admin and a second subject are stored and the run left
\* one admin.
C4_Witness ==
    /\ resp.op = "create_admin_user"
    /\ Cardinality(AdminRows(users)) = 1
    /\ Cardinality(DOMAIN users) = 2

\* C6: an update_user that succeeds sets exactly the fields its payload gives
\* and leaves every other field of the subject, and every other subject, as it
\* was.
C6_PartialUpdate ==
    [][(resp'.op = "update_user" /\ resp'.kind = "ok") =>
          \A u \in UserUpdates :
              update_user(resp'.id, u) =>
                  /\ DOMAIN users' = DOMAIN users
                  /\ \A i \in DOMAIN users \ {resp'.id} : users'[i] = users[i]
                  /\ \A f \in UserFields :
                         users'[resp'.id][f] = IF u[f] = None THEN users[resp'.id][f]
                                               ELSE Stored(f, u[f][1])
      ]_vars

\* A subject created by create_user was verified by an update and kept its
\* name, email, password and scope.
C6_Witness ==
    /\ resp.op = "update_user"
    /\ resp.kind = "ok"
    /\ \E id \in DOMAIN users :
           users[id] = [name |-> "bob", email |-> "bob@x", password |-> Hash("pw"),
                        verified |-> TRUE, scope |-> {"USER"}]

\* C10: to_token returns a token only for a stored user whose password matched
\* and who was verified, and the token carries that user's id and scope; for an
\* unknown email, a wrong password or an unverified user it returns no token and
\* the client's token is not replaced; a wrong password on an unverified account
\* is refused as unauthorized, not as forbidden.
C10_TokenAfterAuthentication ==
    /\ [](\A e \in Emails, p \in Passwords :
            \A found \in FindResults(users, e) :
                LET r == ToToken(users, found, p, now)
                IN /\ r.kind = "ok" =>
                          /\ found \in DOMAIN users
                          /\ users[found].email = e
                          /\ Matches(found, p)
                          /\ users[found].verified
                          /\ TokenDecode(r.tok, {}, now)
                                 = [kind |-> "ok", id |-> found,
                                    scope |-> users[found].scope]
                   /\ r.kind # "ok" => r.tok = NoToken
                   /\ (found = 0 \/ ~Matches(found, p)) => r.kind = "unauthorized"
                   /\ (found # 0 /\ Matches(found, p) /\ ~users[found].verified) =>
                          r.kind = "forbidden")
    /\ [][(resp'.op = "to_token" /\ resp'.kind # "ok") =>
             \A e \in Emails, p \in Passwords : to_token(e, p) => held' = held]_vars

\* A wrong password for an unverified account was refused as unauthorized.
C10_Witness ==
    /\ resp.op = "to_token"
    /\ resp.kind = "unauthorized"
    /\ \E id \in DOMAIN users : users[id].email = resp.username /\ ~users[id].verified
    /\ \A id \in DOMAIN users : users[id].email = resp.username => ~users[id].verified

(***************************************************************************)
(* Property of the user store under concurrent requests, checked under     *)
(* SpecConc.                                                               *)
(***************************************************************************)
\* C5: in every state reachable by interleaving create_user, update_user,
\* delete_user and create_admin_user, no two stored subjects have the same
\* email.
C5_EmailUnique ==
    \A i \in DOMAIN users, j \in DOMAIN users : i # j => users[i].email # users[j].email

====
